---- MODULE Spec2Model ----
(***************************************************************************)
(* A model of src/code/utils.py: the ranking metric apk, the overlap       *)
(* measure bbox_iou, and the two randomized box operators                  *)
(* add_noise_to_bboxes and create_or_destroy_bboxes.                       *)
(*                                                                         *)
(* Real numbers are exact fractions <<num, den>> with den > 0.  A call     *)
(* that raises is the result record [err |-> TRUE, ...].                   *)
(***************************************************************************)
EXTENDS Integers, Sequences, FiniteSets, TLC

VARIABLES
    \* apk: its parameters, its locals, its position and its result;
    \* given_predicted is the predicted list as the caller passed it
    actual, predicted, k, i, score, num_hits, apk_pc, apk_result, given_predicted,
    \* bbox_iou: its parameters, its position and its result
    bbox_a, bbox_b, iou_pc, iou,
    \* add_noise_to_bboxes: the collection, the extent, the two drawn offset
    \* pairs and its position; old_bboxes is the collection at call entry
    bboxes, shape, change_position, change_size, noise_pc, old_bboxes,
    \* create_or_destroy_bboxes: its parameters, the result list, the values
    \* drawn so far and its position; cd_given is the collection as passed
    cd_bboxes, prob, final_bboxes, draws, cd_pc, cd_given

apk_vars == <<actual, predicted, k, i, score, num_hits, apk_pc, apk_result, given_predicted>>

iou_vars == <<bbox_a, bbox_b, iou_pc, iou>>

noise_vars == <<bboxes, shape, change_position, change_size, noise_pc, old_bboxes>>

cd_vars == <<cd_bboxes, prob, final_bboxes, draws, cd_pc, cd_given>>

vars == <<apk_vars, iou_vars, noise_vars, cd_vars>>

(***************************************************************************)
(* Bounds of the model                                                     *)
(***************************************************************************)
\* longest actual, predicted and box list
MaxLen == 3
\* k ranges over -MaxK..MaxK
MaxK == 4
\* box coordinates range over 0..MaxCoord
MaxCoord == 2
\* the noise factors range over 1..MaxFactor
MaxFactor == 2
\* the uniform draw in [0, 1) takes the values d / DrawDen, d in 0..DrawDen-1
DrawDen == 3

Items == {"a", "b"}

Lists == UNION {[1..n -> Items] : n \in 0..MaxLen}

Ks == (0 - MaxK)..MaxK

(***************************************************************************)
(* Arithmetic helpers                                                      *)
(***************************************************************************)
Min(x, y) == IF x < y THEN x ELSE y

Max(x, y) == IF x < y THEN y ELSE x

\* the items of a list, as Python's "in" sees them
Elems(s) == {s[n] : n \in DOMAIN s}

\* Python's s[:n], for every integer n (a negative n counts from the end)
Prefix(s, n) ==
    IF n >= 0
        THEN SubSeq(s, 1, Min(n, Len(s)))
        ELSE SubSeq(s, 1, Max(0, Len(s) + n))

\* a / b as a fraction with a positive denominator (b # 0)
Frac(a, b) == IF b < 0 THEN <<0 - a, 0 - b>> ELSE <<a, b>>

\* p + a / b (b > 0)
FracAdd(p, a, b) == <<p[1] * b + a * p[2], p[2] * b>>

\* p / m (m # 0)
FracDiv(p, m) == Frac(p[1], p[2] * m)

FracLeq(p, q) == p[1] * q[2] <= q[1] * p[2]

FracEq(p, q) == p[1] * q[2] = q[1] * p[2]

Value(p) == [err |-> FALSE, val |-> p]

Raised == [err |-> TRUE, val |-> <<0, 1>>]

NoResult == [err |-> FALSE, val |-> <<0, 1>>]

(***************************************************************************)
(* The state of a function that is not being called                        *)
(***************************************************************************)
IdleApk ==
    /\ actual = <<>> /\ predicted = <<>> /\ k = 1 /\ given_predicted = <<>>
    /\ i = 0 /\ score = <<0, 1>> /\ num_hits = 0
    /\ apk_pc = "off" /\ apk_result = NoResult

IdleIou ==
    /\ bbox_a = <<0, 0, 0, 0>> /\ bbox_b = <<0, 0, 0, 0>>
    /\ iou_pc = "off" /\ iou = NoResult

IdleNoise ==
    /\ bboxes = <<>> /\ old_bboxes = <<>> /\ shape = <<0, 0>>
    /\ change_position = <<0, 0>> /\ change_size = <<0, 0>>
    /\ noise_pc = "off"

IdleCd ==
    /\ cd_bboxes = <<>> /\ cd_given = <<>> /\ prob = 0
    /\ final_bboxes = <<>> /\ draws = <<>> /\ cd_pc = "off"


(***************************************************************************)
(* apk(actual, predicted, k)                                               *)
(***************************************************************************)
\* IsHit without the first-occurrence test: every occurrence is credited
IsHitEveryOccurrence(act, pred, n) == pred[n + 1] \in Elems(act)

\* line 168, with i 0-based: p in actual and p not in predicted[:i]
IsHit(act, pred, n) ==
    /\ pred[n + 1] \in Elems(act)
    /\ pred[n + 1] \notin Elems(Prefix(pred, n))

\* lines 161-162
Truncate(pred, kk) == IF kk < Len(pred) THEN Prefix(pred, kk) ELSE pred

\* ApkReturn dividing by len(actual) whatever k is
ApkReturnDivByLen(act, sc, kk) ==
    IF act = <<>> THEN Value(<<0, 1>>) ELSE Value(FracDiv(sc, Len(act)))

\* lines 172-175
ApkReturn(act, sc, kk) ==
    IF act = <<>>
        THEN Value(<<0, 1>>)
        ELSE IF Min(Len(act), kk) = 0
            THEN Raised
            ELSE Value(FracDiv(sc, Min(Len(act), kk)))

InitApk ==
    /\ actual \in Lists
    /\ predicted \in Lists
    /\ k \in Ks
    /\ given_predicted = predicted
    /\ i = 0
    /\ score = <<0, 1>>
    /\ num_hits = 0
    /\ apk_pc = "entry"
    /\ apk_result = NoResult
    /\ IdleIou /\ IdleNoise /\ IdleCd

\* lines 161-165
ApkEntry ==
    /\ apk_pc = "entry"
    /\ predicted' = Truncate(predicted, k)
    /\ score' = <<0, 1>>
    /\ num_hits' = 0
    /\ i' = 0
    /\ apk_pc' = "loop"
    /\ UNCHANGED <<actual, k, apk_result, given_predicted>>
    /\ UNCHANGED <<iou_vars, noise_vars, cd_vars>>

\* lines 167-170, one iteration
ApkIter ==
    /\ apk_pc = "loop"
    /\ i < Len(predicted)
    /\ IF IsHit(actual, predicted, i)
        THEN /\ num_hits' = num_hits + 1
             /\ score' = FracAdd(score, num_hits + 1, i + 1)
        ELSE UNCHANGED <<num_hits, score>>
    /\ i' = i + 1
    /\ UNCHANGED <<actual, predicted, k, apk_pc, apk_result, given_predicted>>
    /\ UNCHANGED <<iou_vars, noise_vars, cd_vars>>

\* lines 172-175
ApkExit ==
    /\ apk_pc = "loop"
    /\ i = Len(predicted)
    /\ apk_result' = ApkReturn(actual, score, k)
    /\ apk_pc' = "done"
    /\ UNCHANGED <<actual, predicted, k, i, score, num_hits, given_predicted>>
    /\ UNCHANGED <<iou_vars, noise_vars, cd_vars>>

NextApk == ApkEntry \/ ApkIter \/ ApkExit

SpecApk == InitApk /\ [][NextApk]_vars

(***************************************************************************)
(* Properties of apk                                                       *)
(***************************************************************************)
ApkDivisor == Min(Len(actual), k)

\* C1: for k >= 1 (duplicates allowed in both lists) the accumulated score
\* stays between 0 and the divisor min(len(actual), k) throughout the loop,
\* and the call returns a value v with 0 <= v <= 1 and never raises.
C1_ApkInUnitInterval ==
    k >= 1 =>
        /\ FracLeq(<<0, 1>>, score)
        /\ FracLeq(score, <<ApkDivisor, 1>>)
        /\ apk_pc = "done" =>
            /\ ~apk_result.err
            /\ FracLeq(<<0, 1>>, apk_result.val)
            /\ FracLeq(apk_result.val, <<1, 1>>)

\* a finished call with k >= 1 in which both lists repeat an item and the
\* score reaches the divisor
C1_Witness ==
    /\ apk_pc = "done"
    /\ k >= 1
    /\ Len(actual) > Cardinality(Elems(actual))
    /\ Len(given_predicted) > Cardinality(Elems(given_predicted))
    /\ num_hits >= 1
    /\ FracEq(apk_result.val, <<1, 1>>)

\* the 0-based positions that earn credit: inside the first k predictions,
\* the item is in actual and does not occur at an earlier position
CreditPositions(act, pred, kk) ==
    {n \in 0..(Min(kk, Len(pred)) - 1) :
        /\ \E m \in DOMAIN act : act[m] = pred[n + 1]
        /\ \A j \in 0..(n - 1) : pred[j + 1] # pred[n + 1]}

RECURSIVE CreditSum(_, _)
\* the sum over the positions n of P of h(n) / (n + 1), h(n) being the number
\* of positions of All that are <= n
CreditSum(P, All) ==
    IF P = {}
        THEN <<0, 1>>
        ELSE LET n == CHOOSE x \in P : TRUE
             IN FracAdd(CreditSum(P \ {n}, All),
                        Cardinality({j \in All : j <= n}), n + 1)

ExpectedApk(act, pred, kk) ==
    LET P == CreditPositions(act, pred, kk)
    IN FracDiv(CreditSum(P, P), Min(Len(act), kk))

\* C2: for a non-empty actual and k >= 1 the call returns S / min(len(actual), k),
\* S being the sum of h(i)/(i+1) over the first-occurrence hit positions i of
\* the first k predictions; so apk(['a'], ['a','a'], k) = 1 and
\* apk(['a'], ['b','a'], k) = 1/2 for k >= 2.
C2_ApkFormula ==
    (apk_pc = "done" /\ actual # <<>> /\ k >= 1) =>
        /\ ~apk_result.err
        /\ FracEq(apk_result.val, ExpectedApk(actual, given_predicted, k))
        /\ (actual = <<"a">> /\ given_predicted = <<"a", "a">> /\ k >= 2)
                => FracEq(apk_result.val, <<1, 1>>)
        /\ (actual = <<"a">> /\ given_predicted = <<"b", "a">> /\ k >= 2)
                => FracEq(apk_result.val, <<1, 2>>)

\* a finished call in which a repeated predicted item met actual twice and
\* was credited once
C2_Witness ==
    /\ apk_pc = "done"
    /\ actual = <<"a">>
    /\ given_predicted = <<"a", "a">>
    /\ k >= 2
    /\ num_hits = 1
    /\ FracEq(apk_result.val, <<1, 1>>)

\* C3: a call with k <= 0 fails with an error and never returns a score.
C3_NonPositiveKRaises ==
    (apk_pc = "done" /\ k <= 0) => apk_result.err

(***************************************************************************)
(* bbox_iou(bbox_a, bbox_b)                                                *)
(* A box is <<tly, tlx, bry, brx>>: Python's bbox[n] is box[n + 1].        *)
(***************************************************************************)
Coords == 0..MaxCoord

Boxes == Coords \X Coords \X Coords \X Coords

\* InterArea with exclusive corners: the + 1 is missing
InterAreaExclusive(a, b) ==
    Max(0, Min(a[4], b[4]) - Max(a[2], b[2]))
        * Max(0, Min(a[3], b[3]) - Max(a[1], b[1]))

\* lines 131-137
InterArea(a, b) ==
    LET x_a == Max(a[2], b[2])
        y_a == Max(a[1], b[1])
        x_b == Min(a[4], b[4])
        y_b == Min(a[3], b[3])
    IN Max(0, x_b - x_a + 1) * Max(0, y_b - y_a + 1)

\* lines 140-141
BoxArea(b) == (b[3] - b[1] + 1) * (b[4] - b[2] + 1)

\* line 143: the denominator
UnionArea(a, b) == BoxArea(a) + BoxArea(b) - InterArea(a, b)

\* IouReturn coercing an empty union to 0 instead of raising
IouReturnZero(inter, union) ==
    IF union = 0 THEN Value(<<0, 1>>) ELSE Value(Frac(inter, union))

\* lines 143-146: dividing by float(0) raises ZeroDivisionError
IouReturn(inter, union) ==
    IF union = 0 THEN Raised ELSE Value(Frac(inter, union))

InitIou ==
    /\ bbox_a \in Boxes
    /\ bbox_b \in Boxes
    /\ iou_pc = "entry"
    /\ iou = NoResult
    /\ IdleApk /\ IdleNoise /\ IdleCd

\* lines 131-146
BboxIou ==
    /\ iou_pc = "entry"
    /\ iou' = IouReturn(InterArea(bbox_a, bbox_b), UnionArea(bbox_a, bbox_b))
    /\ iou_pc' = "done"
    /\ UNCHANGED <<bbox_a, bbox_b>>
    /\ UNCHANGED <<apk_vars, noise_vars, cd_vars>>

NextIou == BboxIou

SpecIou == InitIou /\ [][NextIou]_vars

(***************************************************************************)
(* Properties of bbox_iou                                                  *)
(***************************************************************************)
WellFormed(b) == b[1] <= b[3] /\ b[2] <= b[4]

\* the pixels <<y, x>> a box covers, both corners included
Pixels(b) == {<<y, x>> : y \in b[1]..b[3], x \in b[2]..b[4]}

\* C4: for boxes with top <= bottom and left <= right the call returns
\* intersection / (areaA + areaB - intersection), the areas counting pixels
\* with both corners included; the value lies in [0, 1], is 1 when A = B and
\* is 0 when the boxes share no pixel.
C4_IouOfWellFormedBoxes ==
    (iou_pc = "done" /\ WellFormed(bbox_a) /\ WellFormed(bbox_b)) =>
        LET P == Pixels(bbox_a)
            Q == Pixels(bbox_b)
            inter == Cardinality(P \cap Q)
        IN /\ ~iou.err
           /\ FracEq(iou.val, <<inter, Cardinality(P) + Cardinality(Q) - inter>>)
           /\ FracLeq(<<0, 1>>, iou.val)
           /\ FracLeq(iou.val, <<1, 1>>)
           /\ bbox_a = bbox_b => FracEq(iou.val, <<1, 1>>)
           /\ P \cap Q = {} => FracEq(iou.val, <<0, 1>>)

\* a finished call on two different well-formed boxes that overlap in part
C4_Witness ==
    /\ iou_pc = "done"
    /\ WellFormed(bbox_a) /\ WellFormed(bbox_b)
    /\ bbox_a # bbox_b
    /\ Pixels(bbox_a) \cap Pixels(bbox_b) # {}
    /\ ~(Pixels(bbox_a) \subseteq Pixels(bbox_b))
    /\ ~(Pixels(bbox_b) \subseteq Pixels(bbox_a))
    /\ FracEq(iou.val, <<1, 3>>)

ZeroAreaApart(a, b) == BoxArea(a) = 0 /\ BoxArea(b) = 0 /\ InterArea(a, b) = 0

\* inclusive height and width are not negative
NonNegativeSides(b) == b[3] - b[1] + 1 >= 0 /\ b[4] - b[2] + 1 >= 0

\* C5 as claimed: over all integer boxes the call raises exactly when both
\* boxes have zero area and do not overlap.
C5_RaisesIffBothZeroArea ==
    iou_pc = "done" => (iou.err <=> ZeroAreaApart(bbox_a, bbox_b))

\* C5 as amended: the call raises exactly when areaA + areaB - intersection
\* is 0 and returns a value otherwise; two zero-area boxes always raise; and
\* for boxes whose inclusive height and width are not negative the call
\* raises exactly when both boxes have zero area and do not overlap.
C5_RaisesIffZeroDenominator ==
    iou_pc = "done" =>
        /\ iou.err <=> (BoxArea(bbox_a) + BoxArea(bbox_b) = InterArea(bbox_a, bbox_b))
        /\ ZeroAreaApart(bbox_a, bbox_b) => iou.err
        /\ (NonNegativeSides(bbox_a) /\ NonNegativeSides(bbox_b))
                => (iou.err <=> ZeroAreaApart(bbox_a, bbox_b))

\* a call that raised on two different zero-area boxes
C5_Witness ==
    /\ iou_pc = "done"
    /\ iou.err
    /\ bbox_a # bbox_b
    /\ BoxArea(bbox_a) = 0 /\ BoxArea(bbox_b) = 0

(***************************************************************************)
(* add_noise_to_bboxes(bboxes, shape, noise_size, noise_size_factor,       *)
(*                     noise_position, noise_position_factor)              *)
(***************************************************************************)
\* the extents the model draws: the empty one and the largest one whose
\* height and width differ
Shapes == {<<0, 0>>, <<Max(MaxCoord - 1, 0), MaxCoord>>}

Factors == 1..MaxFactor

\* np.random.randint(-f, high=f): the integers -f .. f-1
RandInt(f) == (0 - f)..(f - 1)

\* lines 70-74 and 77-81: one pair of offsets, or (0, 0) when the flag is off
DrawPair(flag, f) == IF flag THEN RandInt(f) \X RandInt(f) ELSE {<<0, 0>>}

\* InLimits without the upper limit
InLimitsNoUpper(c, lim) == ~(c < 0)

\* lines 87-88, 105-106: c stays inside the limits 0 and lim
InLimits(c, lim) == ~(c < 0 \/ lim < c)

\* MoveAxis testing and moving each endpoint on its own
MoveAxisPerEndpoint(bbox, lo, hi, lim, d) ==
    [bbox EXCEPT
        ![lo] = IF InLimits(bbox[lo] + d, lim) THEN bbox[lo] + d ELSE bbox[lo],
        ![hi] = IF InLimits(bbox[hi] + d, lim) THEN bbox[hi] + d ELSE bbox[hi]]

\* lines 87-92 (lo = 1, hi = 3, lim = shape[0]) and 95-100 (lo = 2, hi = 4,
\* lim = shape[1]): both endpoints move by d, or neither
MoveAxis(bbox, lo, hi, lim, d) ==
    IF InLimits(bbox[lo] + d, lim) /\ InLimits(bbox[hi] + d, lim)
        THEN [bbox EXCEPT ![lo] = bbox[lo] + d, ![hi] = bbox[hi] + d]
        ELSE bbox

\* ResizeEndpoint without the test against the limits
ResizeEndpointUnchecked(bbox, n, lim, d) == [bbox EXCEPT ![n] = bbox[n] + d]

\* lines 105-107 and 111-113: one endpoint
ResizeEndpoint(bbox, n, lim, d) ==
    IF InLimits(bbox[n] + d, lim)
        THEN [bbox EXCEPT ![n] = bbox[n] + d]
        ELSE bbox

\* lines 87-100
MovePosition(bbox, shp, cp) ==
    MoveAxis(MoveAxis(bbox, 1, 3, shp[1], cp[1]), 2, 4, shp[2], cp[2])

\* lines 104-113
Resize(bbox, shp, cs) ==
    LET v0 == ResizeEndpoint(bbox, 1, shp[1], cs[1])
        v2 == ResizeEndpoint(v0, 3, shp[1], cs[1])
        h1 == ResizeEndpoint(v2, 2, shp[2], cs[2])
    IN ResizeEndpoint(h1, 4, shp[2], cs[2])

\* lines 84-113: the loop body, the same offsets for every box
NoisyBbox(bbox, shp, cp, cs) == Resize(MovePosition(bbox, shp, cp), shp, cs)

\* the collections drawn hold one box, every box of the coordinate range:
\* the loop body reads and writes no box but its own
InitNoise ==
    /\ bboxes \in {<<b>> : b \in Boxes}
    /\ old_bboxes = bboxes
    /\ shape \in Shapes
    /\ change_position = <<0, 0>>
    /\ change_size = <<0, 0>>
    /\ noise_pc = "idle"
    /\ IdleApk /\ IdleIou /\ IdleCd

\* lines 66-113: the position pair is drawn with noise_size_factor and the
\* size pair with noise_position_factor, then every box is rewritten in place
AddNoise ==
    /\ noise_pc = "idle"
    /\ \E noise_position \in BOOLEAN, noise_size \in BOOLEAN,
          noise_size_factor \in Factors, noise_position_factor \in Factors :
        \E cp \in DrawPair(noise_position, noise_size_factor),
           cs \in DrawPair(noise_size, noise_position_factor) :
            /\ change_position' = cp
            /\ change_size' = cs
            /\ bboxes' = [n \in DOMAIN bboxes |-> NoisyBbox(bboxes[n], shape, cp, cs)]
    /\ old_bboxes' = bboxes
    /\ noise_pc' = "returning"
    /\ UNCHANGED shape
    /\ UNCHANGED <<apk_vars, iou_vars, cd_vars>>

\* line 116: the caller gets the collection back, the drawn offsets are gone
NoiseReturn ==
    /\ noise_pc = "returning"
    /\ old_bboxes' = bboxes
    /\ change_position' = <<0, 0>>
    /\ change_size' = <<0, 0>>
    /\ noise_pc' = "idle"
    /\ UNCHANGED <<bboxes, shape>>
    /\ UNCHANGED <<apk_vars, iou_vars, cd_vars>>

NextNoise == AddNoise \/ NoiseReturn

SpecNoise == InitNoise /\ [][NextNoise]_vars

(***************************************************************************)
(* Properties of add_noise_to_bboxes                                       *)
(***************************************************************************)
\* the two endpoints and the extent index of the vertical and horizontal axis
Axes == {<<1, 3, 1>>, <<2, 4, 2>>}

OutOfImage(c, lim) == c < 0 \/ c > lim

\* the position offset of axis ax would take an endpoint of b out of the image
MoveLeavesImage(b, ax) ==
    \/ OutOfImage(b[ax[1]] + change_position[ax[3]], shape[ax[3]])
    \/ OutOfImage(b[ax[2]] + change_position[ax[3]], shape[ax[3]])

InImage(b) ==
    /\ ~OutOfImage(b[1], shape[1]) /\ ~OutOfImage(b[3], shape[1])
    /\ ~OutOfImage(b[2], shape[2]) /\ ~OutOfImage(b[4], shape[2])

\* c after the size offset d alone: c + d when that is in the image, else c
SizedOnly(c, lim, d) == IF OutOfImage(c + d, lim) THEN c ELSE c + d

\* C6 as claimed: when the position offset of an axis would take either
\* endpoint out of the image, both coordinates of that axis are after the
\* call what they were before it.
C6_AxisUnchangedByCall ==
    noise_pc = "returning" =>
        \A n \in DOMAIN old_bboxes : \A ax \in Axes :
            MoveLeavesImage(old_bboxes[n], ax) =>
                /\ bboxes[n][ax[1]] = old_bboxes[n][ax[1]]
                /\ bboxes[n][ax[2]] = old_bboxes[n][ax[2]]

\* C6 as amended: when the position offset of an axis would take either
\* endpoint out of the image, the position move of that axis is applied to
\* neither endpoint: after the call each coordinate of the axis is its value
\* before the call changed by the size step alone (plus the size offset when
\* that stays in the image), so it is unchanged when the size offset is 0.
C6_AxisMoveAllOrNothing ==
    noise_pc = "returning" =>
        \A n \in DOMAIN old_bboxes : \A ax \in Axes :
            MoveLeavesImage(old_bboxes[n], ax) =>
                \A e \in {ax[1], ax[2]} :
                    /\ bboxes[n][e] = SizedOnly(old_bboxes[n][e], shape[ax[3]],
                                                change_size[ax[3]])
                    /\ change_size[ax[3]] = 0 => bboxes[n][e] = old_bboxes[n][e]

\* a call whose vertical position offset fitted the bottom but not the top,
\* so that neither moved, and whose size offset then moved the bottom
C6_Witness ==
    /\ noise_pc = "returning"
    /\ \E n \in DOMAIN old_bboxes :
        /\ change_position[1] # 0
        /\ OutOfImage(old_bboxes[n][1] + change_position[1], shape[1])
        /\ ~OutOfImage(old_bboxes[n][3] + change_position[1], shape[1])
        /\ bboxes[n][1] = old_bboxes[n][1]
        /\ bboxes[n][3] = old_bboxes[n][3] + change_size[1]
        /\ change_size[1] # 0

\* C7 as claimed: with shape = (0, 0) every box has after the call exactly
\* the coordinates it had before, for every input box and every offsets.
C7_ZeroExtentFreezesEveryBox ==
    (noise_pc = "returning" /\ shape = <<0, 0>>) => bboxes = old_bboxes

\* C7 as amended: with shape = (0, 0) every box whose coordinates lie in the
\* extent (all 0) has after the call exactly the coordinates it had before,
\* for every drawn offsets; a coordinate outside the extent is either kept or
\* moved onto 0.
C7_ZeroExtentFreezesBoxesInside ==
    (noise_pc = "returning" /\ shape = <<0, 0>>) =>
        \A n \in DOMAIN old_bboxes :
            /\ InImage(old_bboxes[n]) => bboxes[n] = old_bboxes[n]
            /\ \A e \in 1..4 : bboxes[n][e] \in {old_bboxes[n][e], 0}

\* a call on the all-zero box in the empty extent with four non-zero offsets
C7_Witness ==
    /\ noise_pc = "returning"
    /\ shape = <<0, 0>>
    /\ \A c \in 1..2 : change_position[c] # 0 /\ change_size[c] # 0
    /\ \E n \in DOMAIN old_bboxes :
        old_bboxes[n] = <<0, 0, 0, 0>> /\ bboxes[n] = <<0, 0, 0, 0>>

\* C9: a box with top <= bottom and left <= right inside the image still has
\* top <= bottom and left <= right after the call.
C9_BoxesStayWellFormed ==
    noise_pc = "returning" =>
        \A n \in DOMAIN old_bboxes :
            (WellFormed(old_bboxes[n]) /\ InImage(old_bboxes[n]))
                => WellFormed(bboxes[n])

\* C10: a box inside the image before the call is inside the image after it,
\* for every drawn position and size offsets, hence after any sequence of
\* calls.
C10_BoxesStayInImage ==
    noise_pc = "returning" =>
        \A n \in DOMAIN old_bboxes :
            InImage(old_bboxes[n]) => InImage(bboxes[n])

\* a call on a box inside the image that accepted the size offset for one
\* endpoint of an axis and rejected it for the other
C10_Witness ==
    /\ noise_pc = "returning"
    /\ \E n \in DOMAIN old_bboxes :
        /\ InImage(old_bboxes[n])
        /\ change_position = <<0, 0>>
        /\ OutOfImage(old_bboxes[n][4] + change_size[2], shape[2])
        /\ bboxes[n][2] = old_bboxes[n][2] + change_size[2]
        /\ change_size[2] # 0

(***************************************************************************)
(* create_or_destroy_bboxes(bboxes, prob)                                  *)
(* prob and the drawn values are numerators over DrawDen.                  *)
(***************************************************************************)
\* the boxes a collection is made of
SomeBoxes == {<<0, 0, 0, 0>>, <<0, 0, MaxCoord, MaxCoord>>}

BoxLists == UNION {[1..n -> SomeBoxes] : n \in 0..MaxLen}

\* np.random.random(): a value of [0, 1)
RandomValues == 0..(DrawDen - 1)

\* prob from 0 to beyond 1
Probs == 0..(DrawDen + 1)

\* Kept with <= for <
KeptOrEqual(p, d) == p <= d

\* line 44: prob < np.random.random()
Kept(p, d) == p < d

InitCd ==
    /\ cd_bboxes \in BoxLists
    /\ cd_given = cd_bboxes
    /\ prob \in Probs
    /\ final_bboxes = <<>>
    /\ draws = <<>>
    /\ cd_pc = "entry"
    /\ IdleApk /\ IdleIou /\ IdleNoise

\* lines 39-42
CdEntry ==
    /\ cd_pc = "entry"
    /\ final_bboxes' = <<>>
    /\ draws' = <<>>
    /\ cd_pc' = "loop"
    /\ UNCHANGED <<cd_bboxes, prob, cd_given>>
    /\ UNCHANGED <<apk_vars, iou_vars, noise_vars>>

\* lines 43-45, one iteration: the box at position Len(draws) + 1
CdIter ==
    /\ cd_pc = "loop"
    /\ Len(draws) < Len(cd_bboxes)
    /\ \E d \in RandomValues :
        /\ draws' = Append(draws, d)
        /\ final_bboxes' =
            IF Kept(prob, d)
                THEN Append(final_bboxes, cd_bboxes[Len(draws) + 1])
                ELSE final_bboxes
    /\ UNCHANGED <<cd_bboxes, prob, cd_pc, cd_given>>
    /\ UNCHANGED <<apk_vars, iou_vars, noise_vars>>

\* line 47
CdReturn ==
    /\ cd_pc = "loop"
    /\ Len(draws) = Len(cd_bboxes)
    /\ cd_pc' = "done"
    /\ UNCHANGED <<cd_bboxes, prob, final_bboxes, draws, cd_given>>
    /\ UNCHANGED <<apk_vars, iou_vars, noise_vars>>

NextCd == CdEntry \/ CdIter \/ CdReturn

SpecCd == InitCd /\ [][NextCd]_vars

(***************************************************************************)
(* Properties of create_or_destroy_bboxes                                  *)
(***************************************************************************)
RECURSIVE Subsequence(_, _, _)
\* the items of s at the positions >= n that belong to P, in the order of s
Subsequence(s, P, n) ==
    IF n > Len(s)
        THEN <<>>
        ELSE IF n \in P
            THEN <<s[n]>> \o Subsequence(s, P, n + 1)
            ELSE Subsequence(s, P, n + 1)

\* C8: the call draws one value per box and returns exactly the boxes whose
\* draw d satisfies prob < d, in input order; the input is not modified; with
\* prob >= 1 the result is empty, and with prob = 0 a box is dropped only when
\* its draw is exactly 0.
C8_KeepsBoxesWithDrawAboveProb ==
    /\ cd_bboxes = cd_given
    /\ cd_pc = "done" =>
        /\ Len(draws) = Len(cd_given)
        /\ final_bboxes =
            Subsequence(cd_given, {n \in DOMAIN draws : prob < draws[n]}, 1)
        /\ prob >= DrawDen => final_bboxes = <<>>
        /\ prob = 0 => final_bboxes =
            Subsequence(cd_given, {n \in DOMAIN draws : draws[n] # 0}, 1)

\* a finished call with prob = 0 on two different boxes that dropped the
\* first, whose draw was 0, and kept the second
C8_Witness ==
    /\ cd_pc = "done"
    /\ prob = 0
    /\ Len(cd_given) = 2
    /\ cd_given[1] # cd_given[2]
    /\ draws[1] = 0
    /\ final_bboxes = <<cd_given[2]>>

====
